---------------------------- MODULE Spec2Model ----------------------------
(***************************************************************************)
(* A model of the LZW codec of image_compression                           *)
(* (src/image_compression/src/compression/lzw.rs): LzwCompressor::compress *)
(* and LzwCompressor::decompress, one action per loop iteration.           *)
(*                                                                         *)
(* A byte is a number in 0..255, a buffer (Vec<u8>, &[u8]) a sequence of   *)
(* bytes.  A run is either compress(b) followed by decompress of the bytes *)
(* compress returned, or decompress of an arbitrary byte buffer.           *)
(***************************************************************************)
EXTENDS Integers, Sequences, FiniteSets, TLC

(***************************************************************************)
(* Bounds of the model.                                                    *)
(***************************************************************************)
\* longest buffer handed to compress
MaxDataLen == 5
\* longest buffer handed directly to decompress
MaxStreamLen == 6

\* byte values of the buffers handed to compress
DataBytes == {65, 66}
\* byte values of the buffers handed directly to decompress: the 2-byte
\* codes they form include literals (0, 1, 65), the first free codes 256
\* and 257, and codes beyond any table length reached (321, 16705)
StreamBytes == {0, 1, 65}
\* the max_table_size values a compressor is constructed with; the last
\* one (the largest integer of the model) asks line 76 for 24 * (2^31 - 1)
\* bytes, about 51.5 GB
TableSizes == {0, 255, 256, 257, 258, 4096, 2147483647}

(***************************************************************************)
(* Program constants.                                                      *)
(***************************************************************************)
\* size_of::<usize>() on the 64-bit targets the crate (std, HashMap) is
\* built for: the dictionary maps to usize codes.
UsizeBytes == 8
\* data.chunks(2): the width, in bytes, of a code read by decompress
ChunkSize == 2
\* the dictionary is seeded with the sequences [0], ..., [255]
LastLiteral == 255
\* next_code starts at 256
FirstFreeCode == 256

(***************************************************************************)
(* Helpers on buffers.                                                     *)
(***************************************************************************)
SeqsUpTo(S, n) == UNION {[1..m -> S] : m \in 0..n}

Min(a, b) == IF a < b THEN a ELSE b

\* the buffers compress is called on, and those decompress is called on
DataBuffers == SeqsUpTo(DataBytes, MaxDataLen)
StreamBuffers == SeqsUpTo(StreamBytes, MaxStreamLen)

\* usize::to_be_bytes / the general big-endian rendering of v in n bytes,
\* most significant byte first (the value wraps at 256^n, as the type does)
RECURSIVE BeBytes(_, _)
BeBytes(v, n) == IF n = 0 THEN <<>>
                 ELSE Append(BeBytes(v \div 256, n - 1), v % 256)

\* code.to_be_bytes() for code: usize
to_be_bytes(code) == BeBytes(code, UsizeBytes)

\* u16::from_be_bytes([chunk[0], chunk[1]]) as usize
from_be_bytes(chunk) == chunk[1] * 256 + chunk[2]

\* (mutant of NumChunks) data.chunks_exact(2): a trailing byte is dropped
NumChunksExact(d) == Len(d) \div ChunkSize

\* data.chunks(2): the number of chunks and the i-th chunk (1-based); the
\* last chunk is shorter when the length is not a multiple of the size
NumChunks(d) == (Len(d) + ChunkSize - 1) \div ChunkSize
Chunk(d, i) == SubSeq(d, ChunkSize * (i - 1) + 1, Min(ChunkSize * i, Len(d)))

(***************************************************************************)
(* The result of a call: Result<Vec<u8>, CompressionError>.                *)
(***************************************************************************)
NoRet == [tag |-> "none"]
Ok(bytes) == [tag |-> "Ok", bytes |-> bytes]
Err(variant, msg) == [tag |-> "Err", variant |-> variant, msg |-> msg]

IsOk(r) == r.tag = "Ok"
IsErr(r, variant) == r.tag = "Err" /\ r.variant = variant

(***************************************************************************)
(* State.                                                                  *)
(***************************************************************************)
VARIABLES
    pc,               \* "start", "c_loop", "c_done", "d_loop", "d_done",
                      \* "c_dead", "d_dead" (the call ended without
                      \* returning: the process aborted or panicked)
    max_table_size,   \* LzwCompressor.max_table_size of the compressor
    data,             \* compress: the argument
    inserted,         \* compress: the entries line 57 put in the dictionary
    w,                \* compress: the current match
    result,           \* compress: the output buffer
    next_code,        \* compress: the next unused code
    pos,              \* compress: 1-based position of the iterator in data
    c_ret,            \* compress: the value returned, or how it ended
    codes,            \* history: the codes compress emitted, in order
    snaps,            \* history: the entries inserted, after each emit
    d_max,            \* decompress: self.max_table_size
    d_data,           \* decompress: the argument
    pushed,           \* decompress: the entries line 113 pushed, in order
    d_w,              \* decompress: the previous entry
    d_result,         \* decompress: the output buffer
    d_pos,            \* decompress: 1-based position of iter in the chunks
    d_ret,            \* decompress: the value returned, or how it ended
    d_codes,          \* history: the codes decompress read, in order
    d_from            \* history: "none", "buffer" or "compress"

vars == <<pc, max_table_size, data, inserted, w, result, next_code, pos,
          c_ret, codes, snaps, d_max, d_data, pushed, d_w, d_result,
          d_pos, d_ret, d_codes, d_from>>

c_vars == <<data, inserted, w, result, next_code, pos, c_ret, codes, snaps>>
d_vars == <<d_max, d_data, pushed, d_w, d_result, d_pos, d_ret,
            d_codes, d_from>>

(***************************************************************************)
(* The allocator.                                                          *)
(***************************************************************************)
\* the ways a call ends without returning: the panic 'capacity overflow'
\* and the abort of the process when the allocator refuses a request
CapacityOverflowPanic == [tag |-> "panic", msg |-> "capacity overflow"]
AllocationAbort == [tag |-> "abort", msg |-> "memory allocation failed"]

\* a request to the allocator (a Vec or String created or grown, a HashMap
\* insertion): it is granted and the code goes on, or it is refused and the
\* process aborts; the source has no size below which it is sure to be
\* granted
Allocates == {NoRet, AllocationAbort}

\* line 76: n * size_of::<Vec<u8>>() = n * 24 exceeds isize::MAX, that is
\* n >= 384307168202282326 = 357913941 * 2^30 + 357913942 (compared by
\* 30-bit halves, the product being beyond the integers of the model)
CapacityOverflows(n) ==
    LET hi == n \div 1073741824
        lo == n % 1073741824
    IN  hi > 357913941 \/ (hi = 357913941 /\ lo >= 357913942)

\* line 76: the outcomes of Vec::with_capacity(n) for a Vec<Vec<u8>>: a
\* panic when the byte size overflows; no request at all for n = 0; else
\* a request of n * 24 bytes, granted or refused
WithCapacity(n) ==
    IF CapacityOverflows(n) THEN {CapacityOverflowPanic}
    ELSE IF n = 0 THEN {NoRet}
    ELSE Allocates

(***************************************************************************)
(* compress                                                                *)
(***************************************************************************)
\* lines 36-39: the dictionary seeded with the 256 single-byte sequences
\* (the sequences of length 1 over 0..255), each mapped to its byte
SeedDictionary == [s \in [1..1 -> 0..LastLiteral] |-> s[1]]

\* dictionary.insert(wk, next_code): a key already there takes the new code
DictInsert(dict, key, code) ==
    [s \in (DOMAIN dict) \cup {key} |-> IF s = key THEN code ELSE dict[s]]

\* no entry: the empty map
NoEntries == [s \in {} |-> 0]

\* the HashMap of compress: the seed, then the entries inserted since (an
\* inserted key overrides a seeded one, as HashMap::insert does)
Dictionary(ins) ==
    [s \in (DOMAIN SeedDictionary) \cup (DOMAIN ins) |->
        IF s \in DOMAIN ins THEN ins[s] ELSE SeedDictionary[s]]
dictionary == Dictionary(inserted)

\* (mutant of CanInsert) the comparison lets one entry too many in
CanInsertInclusive(next, max) == next <= max

\* line 56: the guard of the insertion
CanInsert(next, max) == next < max

\* (mutant of NextMatch) the match keeps growing after an emit
NextMatchKeepsAll(wk, k) == wk

\* line 60: after an emit the match restarts at the byte just read
NextMatch(wk, k) == <<k>>

\* compress ends where it stands: the allocator refused a request
CompressAborts ==
    /\ pc' = "c_dead"
    /\ c_ret' = AllocationAbort

\* LzwCompressor::new and the entry of compress (lines 36-43); the 256
\* insertions of lines 37-39 allocate
CallCompress ==
    /\ pc = "start"
    /\ \E b \in DataBuffers : data' = b
    /\ inserted' = NoEntries
    /\ w' = <<>>
    /\ result' = <<>>
    /\ next_code' = FirstFreeCode
    /\ pos' = 1
    /\ \E alloc \in Allocates :
          IF alloc = NoRet
          THEN pc' = "c_loop" /\ UNCHANGED c_ret
          ELSE CompressAborts
    /\ UNCHANGED <<max_table_size, codes, snaps>>
    /\ UNCHANGED d_vars

\* one iteration of `for &k in data` (lines 45-62) when the allocator grants
\* what it asks for
CompressIteration ==
    /\ LET k == data[pos]
           wk == Append(w, k)
       IN  IF wk \in DOMAIN dictionary
           THEN /\ w' = wk
                /\ pc' = pc
                /\ UNCHANGED <<inserted, result, next_code, c_ret, codes,
                               snaps>>
           ELSE IF w \in DOMAIN dictionary
           THEN LET code == dictionary[w]
                    grown == IF CanInsert(next_code, max_table_size)
                             THEN DictInsert(inserted, wk, next_code)
                             ELSE inserted
                IN  /\ result' = result \o to_be_bytes(code)
                    /\ codes' = Append(codes, code)
                    /\ inserted' = grown
                    /\ next_code' = IF CanInsert(next_code, max_table_size)
                                    THEN next_code + 1 ELSE next_code
                    /\ snaps' = Append(snaps, grown)
                    /\ w' = NextMatch(wk, k)
                    /\ pc' = pc
                    /\ UNCHANGED c_ret
           ELSE /\ c_ret' = Err("Compression",
                                "Failed to retrieve code from dictionary")
                /\ pc' = "c_done"
                /\ UNCHANGED <<inserted, w, result, next_code, codes, snaps>>
    /\ pos' = pos + 1

\* one iteration of `for &k in data` (lines 45-62); every iteration
\* allocates (wk at lines 46-47)
CompressStep ==
    /\ pc = "c_loop"
    /\ pos <= Len(data)
    /\ \E alloc \in Allocates :
          IF alloc = NoRet
          THEN CompressIteration
          ELSE /\ CompressAborts
               /\ UNCHANGED <<inserted, w, result, next_code, pos, codes,
                              snaps>>
    /\ UNCHANGED <<max_table_size, data>>
    /\ UNCHANGED d_vars

\* the end of compress (lines 64-72) when the allocator grants what it
\* asks for: the last match is flushed
CompressFlush ==
    /\ pc' = "c_done"
    /\ IF w # <<>>
       THEN IF w \in DOMAIN dictionary
            THEN /\ result' = result \o to_be_bytes(dictionary[w])
                 /\ codes' = Append(codes, dictionary[w])
                 /\ snaps' = Append(snaps, inserted)
                 /\ c_ret' = Ok(result')
            ELSE /\ c_ret' = Err("Compression",
                            "Failed to retrieve final code from dictionary")
                 /\ UNCHANGED <<result, codes, snaps>>
       ELSE /\ c_ret' = Ok(result)
            /\ UNCHANGED <<result, codes, snaps>>

\* the end of compress (lines 64-72); the flush of a non-empty match may
\* grow result, an empty match allocates nothing
CompressReturn ==
    /\ pc = "c_loop"
    /\ pos > Len(data)
    /\ \E alloc \in (IF w # <<>> THEN Allocates ELSE {NoRet}) :
          IF alloc = NoRet
          THEN CompressFlush
          ELSE CompressAborts /\ UNCHANGED <<result, codes, snaps>>
    /\ UNCHANGED <<max_table_size, data, inserted, w, next_code, pos>>
    /\ UNCHANGED d_vars

(***************************************************************************)
(* decompress                                                              *)
(***************************************************************************)
\* (mutant of SeedTable) the seeded entries are left empty
SeedTableEmpty == [i \in 1..(LastLiteral + 1) |-> <<>>]

\* lines 76-79: the table seeded with the 256 single-byte sequences
SeedTable == [i \in 1..(LastLiteral + 1) |-> <<i - 1>>]

\* the Vec of decompress: the seed, then the entries pushed since
Table(psh) == SeedTable \o psh
d_dictionary == Table(pushed)

\* dictionary.get(k) is Some: k indexes an existing entry
IsKnown(table, k) == k < Len(table)
\* dictionary.get(k) when it is Some (the Vec is 0-based)
TableGet(table, k) == table[k + 1]

\* (mutant of IsNextCode) every unknown code is taken for the next one
IsNextCodeOrBeyond(table, k) == k >= Len(table)
\* (mutant of IsNextCode) the comparison is off by one
IsNextCodeOffByOne(table, k) == k = Len(table) + 1

\* line 102: the code is the one the next insertion will take
IsNextCode(table, k) == k = Len(table)

\* (mutant of CanPush) the comparison lets one entry too many in
CanPushInclusive(table, max) == Len(table) <= max

\* line 110: the guard of the insertion
CanPush(table, max) == Len(table) < max

\* lines 84-87: the first chunk is there and complete
FirstChunkOk(s) == NumChunks(s) >= 1 /\ Len(Chunk(s, 1)) = ChunkSize

\* line 96: a chunk of the loop is complete
ChunkOk(chunk) == Len(chunk) = ChunkSize

\* (mutant of InvalidData) a missing or short chunk ends the output quietly
InvalidDataAsEmpty == Ok(<<>>)

InvalidData == Err("Decompression", "Invalid compressed data")
InvalidCode == Err("Decompression", "Invalid compressed code")

\* lines 83-93: the first chunk is read and looked up
ReadFirstCode(s) ==
    /\ d_pos' = 2
    /\ IF ~FirstChunkOk(s)
       THEN /\ d_ret' = InvalidData
            /\ pc' = "d_done"
            /\ d_w' = <<>>
            /\ d_result' = <<>>
            /\ d_codes' = <<>>
       ELSE LET first_code == from_be_bytes(Chunk(s, 1))
            IN  /\ d_codes' = <<first_code>>
                /\ IF IsKnown(SeedTable, first_code)
                   THEN /\ d_w' = TableGet(SeedTable, first_code)
                        /\ d_result' = TableGet(SeedTable, first_code)
                        /\ d_ret' = NoRet
                        /\ pc' = "d_loop"
                   ELSE /\ d_ret' = InvalidCode
                        /\ pc' = "d_done"
                        /\ d_w' = <<>>
                        /\ d_result' = <<>>

\* line 76 or the seeding of lines 77-79 failed: the call ends before the
\* buffer is looked at
AllocationFailed(outcome) ==
    /\ d_ret' = outcome
    /\ pc' = "d_dead"
    /\ d_pos' = 1
    /\ d_w' = <<>>
    /\ d_result' = <<>>
    /\ d_codes' = <<>>

\* the entry of decompress up to the loop (lines 76-93), on the buffer s by
\* a compressor whose max_table_size is m: the table is allocated (line
\* 76), then seeded (lines 77-79, 256 allocations), then the first chunk is
\* read
DecompressEntry(s, m, from) ==
    /\ d_data' = s
    /\ d_max' = m
    /\ d_from' = from
    /\ pushed' = <<>>
    /\ \E cap \in WithCapacity(m) :
          IF cap # NoRet
          THEN AllocationFailed(cap)
          ELSE \E alloc \in Allocates :
                  IF alloc = NoRet
                  THEN ReadFirstCode(s)
                  ELSE AllocationFailed(alloc)

\* decompress called on an arbitrary buffer
CallDecompress ==
    /\ pc = "start"
    /\ \E s \in StreamBuffers : DecompressEntry(s, max_table_size, "buffer")
    /\ UNCHANGED max_table_size
    /\ UNCHANGED c_vars

\* decompress called on the bytes compress returned, by the same compressor
\* (m = max_table_size) or by one constructed with another table size
CallDecompressOutput ==
    /\ pc = "c_done"
    /\ IsOk(c_ret)
    /\ \E m \in TableSizes : DecompressEntry(c_ret.bytes, m, "compress")
    /\ UNCHANGED max_table_size
    /\ UNCHANGED c_vars

\* one iteration of `for chunk in iter` (lines 95-116) when the allocator
\* grants what it asks for
DecompressIteration ==
    /\ d_pos' = d_pos + 1
    /\ LET chunk == Chunk(d_data, d_pos)
       IN  IF ~ChunkOk(chunk)
           THEN /\ d_ret' = InvalidData
                /\ pc' = "d_done"
                /\ UNCHANGED <<pushed, d_w, d_result, d_codes>>
           ELSE LET k == from_be_bytes(chunk)
                IN  /\ d_codes' = Append(d_codes, k)
                    /\ IF IsKnown(d_dictionary, k) \/ IsNextCode(d_dictionary, k)
                       THEN LET entry == IF IsKnown(d_dictionary, k)
                                         THEN TableGet(d_dictionary, k)
                                         ELSE Append(d_w, d_w[1])
                            IN  /\ d_result' = d_result \o entry
                                /\ pushed' =
                                       IF CanPush(d_dictionary, d_max)
                                       THEN Append(pushed,
                                                   Append(d_w, entry[1]))
                                       ELSE pushed
                                /\ d_w' = entry
                                /\ pc' = pc
                                /\ UNCHANGED d_ret
                       ELSE /\ d_ret' = InvalidCode
                            /\ pc' = "d_done"
                            /\ UNCHANGED <<pushed, d_w, d_result>>

\* decompress ends where it stands: the allocator refused a request
DecompressAborts ==
    /\ pc' = "d_dead"
    /\ d_ret' = AllocationAbort
    /\ UNCHANGED <<pushed, d_w, d_result, d_pos, d_codes>>

\* one iteration of `for chunk in iter` (lines 95-116); every iteration
\* allocates (the entry cloned, or the message of the error)
DecompressStep ==
    /\ pc = "d_loop"
    /\ d_pos <= NumChunks(d_data)
    /\ \E alloc \in Allocates :
          IF alloc = NoRet THEN DecompressIteration ELSE DecompressAborts
    /\ UNCHANGED <<d_max, d_data, d_from, max_table_size>>
    /\ UNCHANGED c_vars

\* the end of decompress (line 118)
DecompressReturn ==
    /\ pc = "d_loop"
    /\ d_pos > NumChunks(d_data)
    /\ pc' = "d_done"
    /\ d_ret' = Ok(d_result)
    /\ UNCHANGED <<d_max, d_data, pushed, d_w, d_result, d_pos,
                   d_codes, d_from, max_table_size>>
    /\ UNCHANGED c_vars

(***************************************************************************)
(* Specification.                                                          *)
(***************************************************************************)
Init ==
    /\ pc = "start"
    /\ max_table_size \in TableSizes
    /\ data = <<>>
    /\ inserted = NoEntries
    /\ w = <<>>
    /\ result = <<>>
    /\ next_code = FirstFreeCode
    /\ pos = 1
    /\ c_ret = NoRet
    /\ codes = <<>>
    /\ snaps = <<>>
    /\ d_max = max_table_size
    /\ d_data = <<>>
    /\ pushed = <<>>
    /\ d_w = <<>>
    /\ d_result = <<>>
    /\ d_pos = 1
    /\ d_ret = NoRet
    /\ d_codes = <<>>
    /\ d_from = "none"

Next ==
    \/ CallCompress
    \/ CompressStep
    \/ CompressReturn
    \/ CallDecompress
    \/ CallDecompressOutput
    \/ DecompressStep
    \/ DecompressReturn

Spec == Init /\ [][Next]_vars

(***************************************************************************)
(* Properties.                                                             *)
(***************************************************************************)
\* decompress has returned
Returned == pc = "d_done"
\* the call under way ended without returning (abort or panic)
Aborted == pc \in {"c_dead", "d_dead"}
\* decompress ran on the bytes compress returned, on the same compressor
RoundTrip == d_from = "compress" /\ d_max = max_table_size
Odd(n) == n % 2 = 1
\* the buffer is n copies of one byte value
Repeated(b) == \A i \in 1..Len(b) : b[i] = b[1]
\* the code the next iteration of decompress reads, when it is complete
NextChunk == Chunk(d_data, d_pos)
AtCode == /\ pc = "d_loop"
          /\ d_pos <= NumChunks(d_data)
          /\ ChunkOk(NextChunk)
\* the table of decompress read as a map code -> sequence equals the
\* dictionary of compress made of the seed and the entries ins
Mirrors(table, ins) ==
    LET dict == Dictionary(ins)
    IN  /\ Cardinality(DOMAIN dict) = Len(table)
        /\ \A k \in 0..(Len(table) - 1) :
              /\ TableGet(table, k) \in DOMAIN dict
              /\ dict[TableGet(table, k)] = k

\* C1: for every buffer b (the empty one included) and every max_table_size
\* >= 256, decompress of the bytes compress(b) returned, on the same
\* compressor, returns Ok(b).
C1_RoundTrip ==
    (Returned /\ RoundTrip /\ max_table_size >= 256) => d_ret = Ok(data)

\* C2: every code compress emits is written as exactly 2 bytes, so the
\* output holds 2 bytes per emitted code, and decompress reading the output
\* in 2-byte chunks reads exactly the emitted code sequence.
C2_TwoBytesPerCode ==
    /\ (pc = "c_done" /\ IsOk(c_ret)) => Len(c_ret.bytes) = 2 * Len(codes)
    /\ (Returned /\ RoundTrip /\ IsOk(d_ret)) => d_codes = codes

\* C3: for every buffer of odd length decompress returns a Decompression
\* error (an Err carries no output bytes), whatever the complete codes
\* before the trailing byte are: the loop cannot run out of chunks, so the
\* Ok of line 118 is never reached.
C3_OddLengthFails ==
    /\ (Returned /\ Odd(Len(d_data))) => IsErr(d_ret, "Decompression")
    /\ (pc = "d_loop" /\ Odd(Len(d_data))) => d_pos <= NumChunks(d_data)

\* a run where the trailing byte was reached after two complete valid codes
C3_Witness ==
    /\ Returned
    /\ Len(d_data) = 5
    /\ Len(d_codes) = 2
    /\ Len(d_result) >= 2
    /\ IsErr(d_ret, "Decompression")

\* C4: decompress of the empty buffer fails with a Decompression error.
C4_EmptyFails ==
    (Returned /\ d_data = <<>>) => IsErr(d_ret, "Decompression")

\* decompress was called on the empty buffer and has returned
C4_Witness ==
    Returned /\ d_data = <<>> /\ d_from = "buffer" /\ d_ret.tag = "Err"

\* C5: in the loop of decompress a code k strictly greater than the current
\* length of the table makes decompress return a Decompression error; the
\* step adds nothing to the output and nothing to the table (a step the
\* allocator lets run).
C5_CodeBeyondTableFails ==
    [][(AtCode /\ from_be_bytes(NextChunk) > Len(d_dictionary) /\ ~Aborted')
         => /\ pc' = "d_done"
            /\ IsErr(d_ret', "Decompression")
            /\ d_result' = d_result
            /\ pushed' = pushed
            /\ d_w' = d_w]_vars

\* the third code was beyond a table that had grown to 257 entries
C5_Witness ==
    /\ Returned
    /\ Len(d_codes) = 3
    /\ Len(pushed) = 1
    /\ d_codes[3] > Len(d_dictionary)
    /\ IsErr(d_ret, "Decompression")

\* C6 as claimed: code 256 met while the table holds only the 256 seeded
\* entries is a Decompression error, as the first code and as the second.
C6_Code256Fails ==
    (/\ pc \in {"d_loop", "d_done"}
     /\ \/ (Len(d_codes) >= 1 /\ d_codes[1] = FirstFreeCode)
        \/ (Len(d_codes) >= 2 /\ d_codes[2] = FirstFreeCode))
        => (Returned /\ IsErr(d_ret, "Decompression"))

\* C6 as amended: code 256 as the first code of the stream is a
\* Decompression error; as the second code it equals the length of the
\* table, so it is reconstructed as w + w[0] (w being the first entry),
\* appended to the output, and the step (after which the iterator stands
\* at the third chunk) returns no error.
C6_Code256FirstOnly ==
    /\ (Len(d_codes) >= 1 /\ d_codes[1] = FirstFreeCode)
          => (Returned /\ IsErr(d_ret, "Decompression"))
    /\ (Len(d_codes) >= 2 /\ d_codes[2] = FirstFreeCode)
          => /\ Len(d_result) >= 3
             /\ SubSeq(d_result, 1, 3) = <<d_codes[1], d_codes[1], d_codes[1]>>
             /\ (d_pos = 3) => /\ d_ret.tag # "Err"
                               /\ d_w = <<d_codes[1], d_codes[1]>>

\* code 256 was read as the second code and decompress goes on
C6_Witness ==
    /\ pc = "d_loop"
    /\ Len(d_codes) = 2
    /\ d_codes[2] = FirstFreeCode
    /\ d_from = "buffer"
    /\ Len(d_result) = 3

\* C7: for n >= 3 copies of one byte and max_table_size = 4096, the code
\* stream compress returns holds strictly fewer than n (2-byte) codes.
C7_RepeatedByteShrinks ==
    (/\ pc = "c_done"
     /\ IsOk(c_ret)
     /\ max_table_size = 4096
     /\ Len(data) >= 3
     /\ Repeated(data))
        => NumChunks(c_ret.bytes) < Len(data)

\* C8: with max_table_size = 256 neither table grows, compress emits one
\* code per input byte, the i-th code being the i-th byte, and decompress
\* of the stream returns the input (stated for the non-empty inputs).
C8_LiteralOnly ==
    /\ max_table_size = 256 => (inserted = NoEntries /\ next_code = 256)
    /\ d_max = 256 => pushed = <<>>
    /\ (pc = "c_done" /\ max_table_size = 256) => codes = data
    /\ (Returned /\ RoundTrip /\ max_table_size = 256 /\ data # <<>>)
          => d_ret = Ok(data)

\* C9: for an odd-length buffer the error decompress returns is
\* Decompression("Invalid compressed data"), whatever the codes at the
\* start of the buffer are.
C9_OddLengthMessage ==
    (Returned /\ Odd(Len(d_data))) => d_ret = InvalidData

\* C10: when decompress runs on what compress returned for b, with the same
\* max_table_size, then after its j-th code (j >= 2) its table equals the
\* dictionary of compress as it stood after the (j-1)-th emitted code (the
\* final dictionary when compress emitted fewer codes), so it never holds
\* an entry compress did not create.
C10_Mirroring ==
    (/\ pc \in {"d_loop", "d_done"}
     /\ RoundTrip
     /\ Len(d_codes) >= 2)
        => Mirrors(d_dictionary,
                   IF Len(d_codes) - 1 <= Len(snaps)
                   THEN snaps[Len(d_codes) - 1] ELSE inserted)

\* a compress run is under way or has returned
InCompress == pc \in {"c_loop", "c_done"}
\* the codes the dictionary assigns
CodesOf(dict) == {dict[s] : s \in DOMAIN dict}

\* C11: in every state of a compress run with max_table_size >= 256 the
\* dictionary holds exactly next_code entries, next_code <= max_table_size,
\* and its codes are exactly 0..next_code-1 (so no code is assigned twice);
\* every step keeps the code of every entry, and once next_code equals
\* max_table_size a step inserts nothing, while a step whose wk is not in
\* the dictionary still emits a code and restarts the match (steps the
\* allocator lets run).
C11_DictionaryShape ==
    (InCompress /\ max_table_size >= 256)
        => /\ Cardinality(DOMAIN dictionary) = next_code
           /\ next_code <= max_table_size
           /\ CodesOf(dictionary) = 0..(next_code - 1)
C11_StepKeepsEntries ==
    (pc = "c_loop" /\ max_table_size >= 256 /\ ~Aborted')
        => /\ \A s \in DOMAIN dictionary :
                 s \in DOMAIN dictionary' /\ dictionary'[s] = dictionary[s]
           /\ (next_code = max_table_size)
                 => /\ inserted' = inserted
                    /\ next_code' = next_code
                    /\ c_ret'.tag # "Err"
                    /\ (pos <= Len(data)
                        /\ Append(w, data[pos]) \notin DOMAIN dictionary)
                          => /\ Len(codes') = Len(codes) + 1
                             /\ w' = <<data[pos]>>
\* (no compress run is under way initially, so the shape holds in every
\* state when every step establishes it)
C11_DictionaryInvariant ==
    [][C11_DictionaryShape' /\ C11_StepKeepsEntries]_vars

\* the table filled up after some growth and compress emitted since
C11_Witness ==
    /\ pc = "c_loop"
    /\ max_table_size > 256
    /\ next_code = max_table_size
    /\ Len(codes) > Cardinality(DOMAIN inserted) + 1

\* C12: the Compression error of compress is unreachable: for every input
\* and every max_table_size the match w is a key of the dictionary at each
\* point where compress looks it up (before an emit in the loop, and at the
\* final flush), so compress never returns Err.
C12_MatchIsKey ==
    /\ c_ret.tag # "Err"
    /\ (pc = "c_loop" /\ pos <= Len(data)
        /\ Append(w, data[pos]) \notin DOMAIN dictionary)
          => w \in DOMAIN dictionary
    /\ (pc = "c_loop" /\ pos > Len(data) /\ w # <<>>)
          => w \in DOMAIN dictionary
    /\ pc = "c_done" => IsOk(c_ret)

\* compress looked the match up with the table full, and returned
C12_Witness ==
    /\ pc = "c_done"
    /\ IsOk(c_ret)
    /\ max_table_size <= 257
    /\ Len(w) >= 2
    /\ Len(codes) >= 3

\* decompress ran on the bytes compress returned, on a compressor with
\* another table size, both sizes being at least 256
Mismatched ==
    /\ d_from = "compress"
    /\ d_max # max_table_size
    /\ d_max >= 256
    /\ max_table_size >= 256
\* compress emitted a code greater than the decoder's table size
EmittedBeyond(max) == \E i \in 1..Len(codes) : codes[i] > max

\* C13 as claimed: when the stream compress produced with table size M1 is
\* decoded with another table size M2 (both >= 256), decompress returns Ok
\* (stated for the non-empty buffers).
C13_MismatchNeverFails ==
    (Returned /\ Mismatched /\ data # <<>>) => IsOk(d_ret)

\* C13 as amended: decoding with another table size M2 returns Ok exactly
\* when the buffer is non-empty and compress emitted no code greater than
\* M2 (always so when M2 > M1); when it emitted one, decompress returns
\* Decompression("Invalid compressed code"), and for the empty buffer
\* Decompression("Invalid compressed data").
C13_MismatchFailsBeyond ==
    (Returned /\ Mismatched)
        => /\ (data = <<>>) => d_ret = InvalidData
           /\ (data # <<>> /\ EmittedBeyond(d_max)) => d_ret = InvalidCode
           /\ (data # <<>> /\ ~EmittedBeyond(d_max)) => IsOk(d_ret)
           /\ (d_max > max_table_size) => ~EmittedBeyond(d_max)

\* a stream made with a larger table was rejected by the smaller one
C13_Witness ==
    /\ Returned
    /\ Mismatched
    /\ d_max < max_table_size
    /\ EmittedBeyond(d_max)
    /\ d_ret = InvalidCode

\* the table of decompress is full (it holds max_table_size entries)
TableFull == d_max >= 256 /\ Len(d_dictionary) = d_max

\* C14 as claimed: once the table of decompress holds max_table_size
\* entries, any code k >= max_table_size, k = max_table_size included,
\* makes decompress return a Decompression error (a step the allocator
\* lets run).
C14_FullTableRejects ==
    [][(AtCode /\ TableFull /\ from_be_bytes(NextChunk) >= d_max
          /\ ~Aborted')
         => (pc' = "d_done" /\ IsErr(d_ret', "Decompression"))]_vars

\* C14 as amended: once the table holds max_table_size entries, any code
\* k > max_table_size makes decompress return a Decompression error, while
\* k = max_table_size is accepted: it equals the table length, so the entry
\* is reconstructed as w + w[0] and appended to the output, nothing is
\* pushed and no error is returned (a step the allocator lets run).
C14_FullTableRejectsBeyond ==
    [][(AtCode /\ TableFull /\ ~Aborted')
         => /\ (from_be_bytes(NextChunk) > d_max)
                 => /\ pc' = "d_done"
                    /\ IsErr(d_ret', "Decompression")
                    /\ d_result' = d_result
            /\ (from_be_bytes(NextChunk) = d_max)
                 => /\ pc' = "d_loop"
                    /\ d_ret' = NoRet
                    /\ d_w' = Append(d_w, d_w[1])
                    /\ d_result' = d_result \o d_w'
                    /\ pushed' = pushed]_vars

\* the table grew to its 257 entries and code 257 was then accepted
C14_Witness ==
    /\ pc = "d_loop"
    /\ d_max > 256
    /\ Len(d_dictionary) = d_max
    /\ Len(d_codes) = 3
    /\ d_codes[3] = d_max
    /\ d_pos = 4

\* decompress has ended, by returning or not
Ended == pc \in {"d_done", "d_dead"}
\* w and every entry of the table of decompress are non-empty
NonEmptyEntries ==
    (pc = "d_loop")
        => /\ d_w # <<>>
           /\ LET table == d_dictionary
              IN  \A i \in 1..Len(table) : table[i] # <<>>

\* C15 as claimed: in every state of decompress, for every buffer and every
\* max_table_size, the carried sequence w and every table entry are
\* non-empty, so w[0] and entry[0] are in bounds, and decompress ends by
\* returning Ok or Err.
C15_AlwaysReturns ==
    /\ NonEmptyEntries
    /\ Ended => d_ret.tag \in {"Ok", "Err"}

\* C15 as amended: in every state of the loop of decompress, for every
\* buffer and every max_table_size, w and every table entry are non-empty,
\* so w[0] and entry[0] are in bounds and decompress never ends by an
\* out-of-bounds failure; when it returns it returns Ok or Err; it can also
\* end without returning, and then only by the abort of the process on a
\* refused allocation (line 76 asks for 24 * max_table_size bytes before
\* the buffer is read) or by the panic 'capacity overflow' of line 76,
\* which needs max_table_size > isize::MAX / 24 and comes before any input
\* is read.
C15_NonEmptyEntries ==
    /\ NonEmptyEntries
    /\ Returned => d_ret.tag \in {"Ok", "Err"}
    /\ (pc = "d_dead")
          => /\ d_ret \in {AllocationAbort, CapacityOverflowPanic}
             /\ (d_ret = CapacityOverflowPanic)
                   => (CapacityOverflows(d_max) /\ d_codes = <<>>)
    /\ (pc \in {"d_loop", "d_done"}) => ~CapacityOverflows(d_max)

\* w[0] was read to reconstruct an entry, which was then pushed
C15_Witness ==
    /\ pc = "d_loop"
    /\ d_from = "buffer"
    /\ Len(pushed) = 2
    /\ d_codes[Len(d_codes)] = LastLiteral + Len(pushed)
    /\ d_w = Append(pushed[1], pushed[1][1])

=============================================================================
